---- MODULE Spec2Model ----
(***************************************************************************)
(* Model of search_packages.py: the sequential fetch / parse / filter /    *)
(* print pipeline of main() and search_packages_in_repo().                 *)
(*                                                                         *)
(* Strings that the program inspects character by character (the search    *)
(* term and package names) are sequences of one-character strings, so that *)
(* str.lower() and the `in` substring test are computed and not assumed.   *)
(* Strings that are only copied around (repository names, URL pieces) are  *)
(* TLA+ strings.  The HTTP servers are the environment: every response is  *)
(* chosen nondeterministically when the request is made.                   *)
(***************************************************************************)
EXTENDS Integers, Sequences, FiniteSets, TLC

VARIABLES
    args,            \* the argparse Namespace handed to main()
    pc,              \* position of the control thread
    exit_code,       \* process exit status, NoCode while running
    repos_to_search, \* main(): list of sub-repositories to search
    i,               \* main(): 1-based index of the for loop over repos_to_search
    all_packages,    \* main(): accumulated (pkg, repo) pairs
    repomd_url,      \* main(): index URL of the current sub-repository
    ncand,           \* number of type='primary' children of the parsed index
    k,               \* 1-based index of the primary candidate being tried
    doc,             \* package elements of the listing that was parsed, in document order
    packages,        \* return value of search_packages_in_repo
    msg,             \* diagnostic printed by search_packages_in_repo for this sub-repository
    last_fetch,      \* the most recent requests.get call
    index_log,       \* sub-repositories whose index fetch has been issued, in order
    found_line,      \* count printed in "Found N packages:" for this sub-repository (0: "No packages found")
    listed,          \* entry lines printed under "Found N packages:" for this sub-repository
    outcomes,        \* per finished sub-repository: did it fail, returned packages, printed count
    served,          \* <package> elements the servers have returned so far
    banner,          \* count printed in the SUMMARY banner, NoCount before it is printed
    summary_lines    \* lines printed beneath the SUMMARY banner

vars == <<args, pc, exit_code, repos_to_search, i, all_packages, repomd_url,
          ncand, k, doc, packages, msg, last_fetch, index_log, found_line,
          listed, outcomes, served, banner, summary_lines>>

----------------------------------------------------------------------------
(* Bounds of the environment *)

\* most <package> elements in one package-list document
MaxPkgs == 2
\* most type='primary' entries in one index document
MaxCand == 2
\* most <package> elements served over one run
MaxServed == 2

----------------------------------------------------------------------------
(* Values *)

NoCode == -1
NoCount == -1

\* Python None / a str, for optional command-line values
NoneStr == [some |-> FALSE, val |-> <<>>]
Str(s) == [some |-> TRUE, val |-> s]
NoneRepo == [some |-> FALSE, val |-> ""]
Repo(r) == [some |-> TRUE, val |-> r]

REPO_CONFIGS ==
    [centos7 |-> [base_url |-> <<"https://vault.centos.org/7.9.2009/os/", "{architecture}", "/">>,
                  repos |-> <<"os">>,
                  repodata_path |-> "repodata/repomd.xml"],
     alma8   |-> [base_url |-> <<"https://vault.almalinux.org/8.9/", "{repo}", "/", "{architecture}", "/os/">>,
                  repos |-> <<"BaseOS", "AppStream", "PowerTools">>,
                  repodata_path |-> "repodata/repomd.xml"],
     alma9   |-> [base_url |-> <<"https://vault.almalinux.org/9.4/", "{repo}", "/", "{architecture}", "/os/">>,
                  repos |-> <<"BaseOS", "AppStream", "CRB", "devel">>,
                  repodata_path |-> "repodata/repomd.xml"]]

\* choices= of the --distro argument
DistroChoices == {"centos7", "alma8", "alma9"}

\* str.format(**kw) over a template cut at its placeholders
Format(template, kw) ==
    [j \in DOMAIN template |->
        IF template[j] = "{architecture}" /\ "architecture" \in DOMAIN kw THEN kw.architecture
        ELSE IF template[j] = "{repo}" /\ "repo" \in DOMAIN kw THEN kw.repo
        ELSE template[j]]

\* the repomd_url built in the loop body of main()
RepomdUrl(distro, repo, architecture) ==
    LET config == REPO_CONFIGS[distro] IN
    IF distro = "centos7"
    THEN Append(Format(config.base_url, [architecture |-> architecture]), config.repodata_path)
    ELSE Append(Format(config.base_url, [repo |-> repo, architecture |-> architecture]),
                config.repodata_path)

\* NameMatches without the two .lower() calls
NameMatches_CaseSensitive(search_term, name) ==
    \E off \in 0..(Len(name) - Len(search_term)) :
        SubSeq(name, off + 1, off + Len(search_term)) = search_term

\* str.lower() on the characters the model uses
LowerChar(c) == IF c = "K" THEN "k" ELSE IF c = "C" THEN "c" ELSE c
Lower(s) == [j \in DOMAIN s |-> LowerChar(s[j])]

\* Python's `a in b` on strings
In(a, b) ==
    \E off \in 0..(Len(b) - Len(a)) : SubSeq(b, off + 1, off + Len(a)) = a

\* line 71: search_term.lower() in name.lower()
NameMatches(search_term, name) == In(Lower(search_term), Lower(name))

\* line 81: f"{name}-{version}-{release}.{arch}"
FullName(name, version, release, arch) ==
    name \o <<"-">> \o version \o <<"-">> \o release \o <<".">> \o arch

\* lines 76-82: the dict appended for a matching <package> element
PkgDict(e) ==
    [name |-> e.name, version |-> e.ver, release |-> e.rel, arch |-> e.arch,
     full_name |-> FullName(e.name, e.ver, e.rel, e.arch)]

\* lines 69-74: does handling element e raise?  A missing <name> raises for
\* every element; a missing <arch>/<version> only once the name has matched.
ElemRaises(search_term, e) ==
    \/ ~e.has_name
    \/ NameMatches(search_term, e.name) /\ ~e.has_meta

RECURSIVE FilterPackages(_, _)
\* lines 68-83: the packages list built from the parsed listing
FilterPackages(search_term, elems) ==
    IF elems = <<>> THEN <<>>
    ELSE LET e == Head(elems) IN
         IF NameMatches(search_term, e.name)
         THEN <<PkgDict(e)>> \o FilterPackages(search_term, Tail(elems))
         ELSE FilterPackages(search_term, Tail(elems))

\* lines 160-162: entry lines printed for one sub-repository
RECURSIVE ListedLines(_, _, _)
ListedLines(pkgs, exact, search_term) ==
    IF pkgs = <<>> THEN <<>>
    ELSE LET pkg == Head(pkgs) IN
         IF exact /\ pkg.name # search_term
         THEN ListedLines(Tail(pkgs), exact, search_term)
         ELSE <<pkg.full_name>> \o ListedLines(Tail(pkgs), exact, search_term)

\* line 163: [(pkg, repo) for pkg in packages]
Tagged(pkgs, repo) == [j \in DOMAIN pkgs |-> [pkg |-> pkgs[j], repo |-> repo]]

RECURSIVE Extend_Dedup(_, _, _)
\* Extend that skips a package some sub-repository has already contributed
Extend_Dedup(acc, pkgs, repo) ==
    IF pkgs = <<>> THEN acc
    ELSE IF \E j \in DOMAIN acc : acc[j].pkg = Head(pkgs)
         THEN Extend_Dedup(acc, Tail(pkgs), repo)
         ELSE Extend_Dedup(Append(acc, [pkg |-> Head(pkgs), repo |-> repo]), Tail(pkgs), repo)

\* line 163: all_packages.extend(...)
Extend(acc, pkgs, repo) == acc \o Tagged(pkgs, repo)

\* FoundCount that counts only the entries it is going to list under --exact
FoundCount_Listed(pkgs, exact, search_term) == Len(ListedLines(pkgs, exact, search_term))

\* line 158: the N of "Found N packages:"; the --exact flag plays no part
FoundCount(pkgs, exact, search_term) == Len(pkgs)

\* lines 172-175: the --exact filter over the accumulation
RECURSIVE ExactOnly(_, _)
ExactOnly(pairs, search_term) ==
    IF pairs = <<>> THEN <<>>
    ELSE IF Head(pairs).pkg.name = search_term
         THEN <<Head(pairs)>> \o ExactOnly(Tail(pairs), search_term)
         ELSE ExactOnly(Tail(pairs), search_term)

\* BannerCount taken after the --exact filter of lines 172-175
BannerCount_AfterFilter(pairs, exact, search_term) ==
    IF exact THEN Len(ExactOnly(pairs, search_term)) ELSE Len(pairs)

\* line 169: the N of the SUMMARY banner, taken before lines 172-175 run
BannerCount(pairs, exact, search_term) == Len(pairs)

\* lines 177-178: f"{pkg['full_name']} (from {repo})"
SummaryLines(pairs) ==
    [j \in DOMAIN pairs |-> [full_name |-> pairs[j].pkg.full_name, repo |-> pairs[j].repo]]

\* Python truthiness of an optional str
Truthy(o) == o.some /\ o.val # <<>>
TruthyRepo(o) == o.some /\ o.val # ""

\* ReposToSearch that honours --repo only when the distribution lists it
ReposToSearch_OnlyConfigured(a) ==
    IF /\ a.repo.some
       /\ \E j \in DOMAIN REPO_CONFIGS[a.distro].repos :
              REPO_CONFIGS[a.distro].repos[j] = a.repo.val
    THEN <<a.repo.val>>
    ELSE REPO_CONFIGS[a.distro].repos

\* line 145
ReposToSearch(a) ==
    IF TruthyRepo(a.repo) THEN <<a.repo.val>> ELSE REPO_CONFIGS[a.distro].repos

----------------------------------------------------------------------------
(* Inputs *)

SearchTerms == {<<"K">>, <<"c", "k">>}
TermArgs == {NoneStr, Str(<<>>)} \cup {Str(t) : t \in SearchTerms}
DistroArgs == DistroChoices \cup {"alma10"}
RepoArgs == {NoneRepo, Repo(""), Repo("BaseOS"), Repo("extras")}
Architectures == {"x86_64"}

PackageNames == {<<"k">>, <<"K">>, <<"c", "k">>, <<"c">>}
WellFormed ==
    {[has_name |-> TRUE, has_meta |-> TRUE, name |-> n,
      ver |-> <<"1">>, rel |-> <<"2">>, arch |-> <<"x">>] : n \in PackageNames}
NoName == [has_name |-> FALSE, has_meta |-> TRUE, name |-> <<>>,
           ver |-> <<"1">>, rel |-> <<"2">>, arch |-> <<"x">>]
NoMeta == [has_name |-> TRUE, has_meta |-> FALSE, name |-> <<"k">>,
           ver |-> <<>>, rel |-> <<>>, arch |-> <<>>]
PackageElems == WellFormed \cup {NoName, NoMeta}

Listings == UNION {[1..n -> PackageElems] : n \in 0..MaxPkgs}

NoFetch == [kind |-> "none", repo |-> 0, cand |-> 0, status |-> 0]

----------------------------------------------------------------------------
Init ==
    /\ args \in [search_term : TermArgs, distro : DistroArgs, architecture : Architectures,
                 repo : RepoArgs, exact : BOOLEAN]
    /\ pc = "parse_args"
    /\ exit_code = NoCode
    /\ repos_to_search = <<>>
    /\ i = 0
    /\ all_packages = <<>>
    /\ repomd_url = <<>>
    /\ ncand = 0
    /\ k = 0
    /\ doc = <<>>
    /\ packages = <<>>
    /\ msg = "none"
    /\ last_fetch = NoFetch
    /\ index_log = <<>>
    /\ found_line = 0
    /\ listed = <<>>
    /\ outcomes = <<>>
    /\ served = 0
    /\ banner = NoCount
    /\ summary_lines = <<>>

\* parse_args() rejects a --distro outside choices= (argparse exits with 2);
\* line 134: parser.error on a falsy search term (also exit status 2)
ArgumentError ==
    /\ pc = "parse_args"
    /\ \/ args.distro \notin DistroChoices
       \/ ~Truthy(args.search_term)
    /\ exit_code' = 2
    /\ pc' = "exit"
    /\ UNCHANGED <<args, repos_to_search, i, all_packages, repomd_url, ncand, k, doc,
                   packages, msg, last_fetch, index_log, found_line, listed,
                   outcomes, served, banner, summary_lines>>

\* lines 137-147
MainSetup ==
    /\ pc = "parse_args"
    /\ args.distro \in DistroChoices
    /\ Truthy(args.search_term)
    /\ IF args.distro \notin DOMAIN REPO_CONFIGS
       THEN /\ exit_code' = 1
            /\ pc' = "exit"
            /\ UNCHANGED <<repos_to_search, i>>
       ELSE /\ repos_to_search' = ReposToSearch(args)
            /\ i' = 1
            /\ pc' = "for_repo"
            /\ UNCHANGED exit_code
    /\ UNCHANGED <<args, all_packages, repomd_url, ncand, k, doc, packages, msg,
                   last_fetch, index_log, found_line, listed, outcomes, served, banner,
                   summary_lines>>

\* lines 149-155: next iteration of the loop, up to the call of search_packages_in_repo
ForRepo ==
    /\ pc = "for_repo"
    /\ i <= Len(repos_to_search)
    /\ repomd_url' = RepomdUrl(args.distro, repos_to_search[i], args.architecture)
    /\ pc' = "get_index"
    /\ UNCHANGED <<args, exit_code, repos_to_search, i, all_packages, ncand, k, doc,
                   packages, msg, last_fetch, index_log, found_line, listed, outcomes,
                   served, banner, summary_lines>>

\* line 42 issued; lines 43-45: status_code != 200
IndexHttpFail ==
    /\ pc = "get_index"
    /\ \E status \in {404} :
        last_fetch' = [kind |-> "index", repo |-> i, cand |-> 0, status |-> status]
    /\ index_log' = Append(index_log, repos_to_search[i])
    /\ msg' = "failed_repomd"
    /\ packages' = <<>>
    /\ pc' = "report"
    /\ UNCHANGED <<args, exit_code, repos_to_search, i, all_packages, repomd_url, ncand,
                   k, doc, found_line, listed, outcomes, served, banner, summary_lines>>

\* IndexRaises without the try/except of lines 40 and 90: the exception
\* leaves main() and the interpreter exits with status 1
IndexRaises_Uncaught ==
    /\ pc = "get_index"
    /\ \E status \in {-1, 200} :
        last_fetch' = [kind |-> "index", repo |-> i, cand |-> 0, status |-> status]
    /\ index_log' = Append(index_log, repos_to_search[i])
    /\ exit_code' = 1
    /\ pc' = "exit"
    /\ UNCHANGED <<args, repos_to_search, i, all_packages, repomd_url, ncand, k, doc,
                   packages, msg, found_line, listed, outcomes, served, banner,
                   summary_lines>>

\* line 42 raises (transport error, timeout) or line 49 raises on malformed
\* XML: caught at lines 90-92
IndexRaises ==
    /\ pc = "get_index"
    /\ \E status \in {-1, 200} :
        last_fetch' = [kind |-> "index", repo |-> i, cand |-> 0, status |-> status]
    /\ index_log' = Append(index_log, repos_to_search[i])
    /\ msg' = "error"
    /\ packages' = <<>>
    /\ pc' = "report"
    /\ UNCHANGED <<args, exit_code, repos_to_search, i, all_packages, repomd_url, ncand,
                   k, doc, found_line, listed, outcomes, served, banner, summary_lines>>

\* lines 42-52: index fetched and parsed; it has n type='primary' children
IndexOk ==
    /\ pc = "get_index"
    /\ \E n \in 0..MaxCand : ncand' = n
    /\ last_fetch' = [kind |-> "index", repo |-> i, cand |-> 0, status |-> 200]
    /\ index_log' = Append(index_log, repos_to_search[i])
    /\ k' = 1
    /\ pc' = "primary"
    /\ UNCHANGED <<args, exit_code, repos_to_search, i, all_packages, repomd_url, doc,
                   packages, msg, found_line, listed, outcomes, served, banner, summary_lines>>

\* line 53: the candidate has no <location> child (or no href): IndexError /
\* KeyError, caught at lines 90-92, before any fetch for it
PrimaryNoLocation ==
    /\ pc = "primary"
    /\ k <= ncand
    /\ msg' = "error"
    /\ packages' = <<>>
    /\ pc' = "report"
    /\ UNCHANGED <<args, exit_code, repos_to_search, i, all_packages, repomd_url, ncand,
                   k, doc, last_fetch, index_log, found_line, listed, outcomes, served,
                   banner, summary_lines>>

\* lines 59-61: package-list fetch returns status_code != 200: continue
PrimaryHttpFail ==
    /\ pc = "primary"
    /\ k <= ncand
    /\ \E status \in {404} :
        last_fetch' = [kind |-> "primary", repo |-> i, cand |-> k, status |-> status]
    /\ k' = k + 1
    /\ UNCHANGED <<args, pc, exit_code, repos_to_search, i, all_packages, repomd_url,
                   ncand, doc, packages, msg, index_log, found_line, listed,
                   outcomes, served, banner, summary_lines>>

\* line 59 raises, or the body is not gzip (line 64) or not XML (line 66):
\* caught at lines 90-92
PrimaryRaises ==
    /\ pc = "primary"
    /\ k <= ncand
    /\ \E status \in {-1, 200} :
        last_fetch' = [kind |-> "primary", repo |-> i, cand |-> k, status |-> status]
    /\ msg' = "error"
    /\ packages' = <<>>
    /\ pc' = "report"
    /\ UNCHANGED <<args, exit_code, repos_to_search, i, all_packages, repomd_url, ncand,
                   k, doc, index_log, found_line, listed, outcomes, served, banner,
                   summary_lines>>

\* PrimaryOk without the return of line 85: the loop goes on to the next
\* candidate and the last one that parses wins
PrimaryOk_NoReturn ==
    /\ pc = "primary"
    /\ k <= ncand
    /\ \E elems \in Listings :
        /\ served + Len(elems) <= MaxServed
        /\ served' = served + Len(elems)
        /\ doc' = elems
        /\ IF \E j \in DOMAIN elems : ElemRaises(args.search_term.val, elems[j])
           THEN /\ msg' = "error"
                /\ packages' = <<>>
                /\ pc' = "report"
                /\ k' = k
           ELSE /\ msg' = "ok"
                /\ packages' = FilterPackages(args.search_term.val, elems)
                /\ pc' = IF k < ncand THEN "primary" ELSE "report"
                /\ k' = IF k < ncand THEN k + 1 ELSE k
    /\ last_fetch' = [kind |-> "primary", repo |-> i, cand |-> k, status |-> 200]
    /\ UNCHANGED <<args, exit_code, repos_to_search, i, all_packages, repomd_url, ncand,
                   index_log, found_line, listed, outcomes, banner, summary_lines>>

\* lines 59-85: package list fetched, decompressed, parsed and filtered; an
\* element that raises sends the whole call to lines 90-92
PrimaryOk ==
    /\ pc = "primary"
    /\ k <= ncand
    /\ \E elems \in Listings :
        /\ served + Len(elems) <= MaxServed
        /\ served' = served + Len(elems)
        /\ doc' = elems
        /\ IF \E j \in DOMAIN elems : ElemRaises(args.search_term.val, elems[j])
           THEN /\ msg' = "error"
                /\ packages' = <<>>
           ELSE /\ msg' = "ok"
                /\ packages' = FilterPackages(args.search_term.val, elems)
    /\ last_fetch' = [kind |-> "primary", repo |-> i, cand |-> k, status |-> 200]
    /\ pc' = "report"
    /\ UNCHANGED <<args, exit_code, repos_to_search, i, all_packages, repomd_url, ncand,
                   k, index_log, found_line, listed, outcomes, banner, summary_lines>>

\* lines 87-88: the for loop over the primary candidates ran out
NoPrimary ==
    /\ pc = "primary"
    /\ k > ncand
    /\ msg' = "no_primary"
    /\ packages' = <<>>
    /\ pc' = "report"
    /\ UNCHANGED <<args, exit_code, repos_to_search, i, all_packages, repomd_url, ncand,
                   k, doc, last_fetch, index_log, found_line, listed, outcomes, served,
                   banner, summary_lines>>

\* lines 157-163 and 166, once search_packages_in_repo has returned (its
\* locals are gone)
ReportFound ==
    /\ pc = "report"
    /\ packages # <<>>
    /\ found_line' = FoundCount(packages, args.exact, args.search_term.val)
    /\ listed' = ListedLines(packages, args.exact, args.search_term.val)
    /\ all_packages' = Extend(all_packages, packages, repos_to_search[i])
    /\ outcomes' = Append(outcomes, [failed |-> FALSE, found |-> packages, count |-> found_line'])
    /\ i' = i + 1
    /\ pc' = "for_repo"
    /\ ncand' = 0
    /\ k' = 0
    /\ doc' = <<>>
    /\ msg' = "none"
    /\ UNCHANGED <<args, exit_code, repos_to_search, repomd_url, packages, last_fetch,
                   index_log, served, banner, summary_lines>>

\* lines 164-166
ReportNone ==
    /\ pc = "report"
    /\ packages = <<>>
    /\ found_line' = 0
    /\ listed' = <<>>
    /\ outcomes' = Append(outcomes, [failed |-> msg \in {"failed_repomd", "error"},
                                   found |-> packages, count |-> found_line'])
    /\ i' = i + 1
    /\ pc' = "for_repo"
    /\ ncand' = 0
    /\ k' = 0
    /\ doc' = <<>>
    /\ msg' = "none"
    /\ UNCHANGED <<args, exit_code, repos_to_search, all_packages, repomd_url, packages,
                   last_fetch, index_log, served, banner, summary_lines>>

\* Summary that reports an empty result as a failure of the process
Summary_EmptyIsFailure ==
    /\ pc = "for_repo"
    /\ i > Len(repos_to_search)
    /\ banner' = BannerCount(all_packages, args.exact, args.search_term.val)
    /\ all_packages' = IF args.exact THEN ExactOnly(all_packages, args.search_term.val)
                       ELSE all_packages
    /\ summary_lines' = SummaryLines(all_packages')
    /\ exit_code' = IF all_packages = <<>> THEN 1 ELSE 0
    /\ pc' = "exit"
    /\ UNCHANGED <<args, repos_to_search, i, repomd_url, ncand, k, doc, packages, msg,
                   last_fetch, index_log, found_line, listed, outcomes, served>>

\* lines 168-180
Summary ==
    /\ pc = "for_repo"
    /\ i > Len(repos_to_search)
    /\ banner' = BannerCount(all_packages, args.exact, args.search_term.val)
    /\ all_packages' = IF args.exact THEN ExactOnly(all_packages, args.search_term.val)
                       ELSE all_packages
    /\ summary_lines' = SummaryLines(all_packages')
    /\ exit_code' = 0
    /\ pc' = "exit"
    /\ UNCHANGED <<args, repos_to_search, i, repomd_url, ncand, k, doc, packages, msg,
                   last_fetch, index_log, found_line, listed, outcomes, served>>

Next ==
    \/ ArgumentError
    \/ MainSetup
    \/ ForRepo
    \/ IndexHttpFail
    \/ IndexRaises
    \/ IndexOk
    \/ PrimaryNoLocation
    \/ PrimaryHttpFail
    \/ PrimaryRaises
    \/ PrimaryOk
    \/ NoPrimary
    \/ ReportFound
    \/ ReportNone
    \/ Summary

Spec == Init /\ [][Next]_vars

----------------------------------------------------------------------------
(* Vocabulary of the properties, stated without the operators of the model *)

Range(f) == {f[j] : j \in DOMAIN f}

RECURSIVE Flatten(_)
Flatten(ss) == IF ss = <<>> THEN <<>> ELSE Head(ss) \o Flatten(Tail(ss))

RECURSIVE SumSeq(_)
SumSeq(ns) == IF ns = <<>> THEN 0 ELSE Head(ns) + SumSeq(Tail(ns))

\* the two spellings of one letter
SameLetter(a, b) ==
    \/ a = b
    \/ {a, b} = {"k", "K"}
    \/ {a, b} = {"c", "C"}

\* term occurs in name at some offset, letter case ignored
OccursIgnoringCase(term, name) ==
    \E off \in 0..(Len(name) - Len(term)) :
        \A j \in 1..Len(term) : SameLetter(term[j], name[off + j])

\* the diagnostics of a fetch that failed and of an exception
FailureMsgs == {"failed_repomd", "error"}

\* the loop over the sub-repositories is running or has just finished
Searching == pc \in {"for_repo", "get_index", "primary", "report"}

\* the run passed argument and configuration validation
ValidArgs ==
    /\ args.distro \in {"centos7", "alma8", "alma9"}
    /\ args.search_term.some
    /\ args.search_term.val # <<>>

\* the sub-repositories a run with valid arguments has to search
ExpectedRepos ==
    IF args.repo.some /\ args.repo.val # ""
    THEN <<args.repo.val>>
    ELSE CASE args.distro = "centos7" -> <<"os">>
           [] args.distro = "alma8" -> <<"BaseOS", "AppStream", "PowerTools">>
           [] args.distro = "alma9" -> <<"BaseOS", "AppStream", "CRB", "devel">>
           [] OTHER -> <<>>

\* what each finished sub-repository contributed, tagged with its name
Contribution(j) ==
    [n \in 1..Len(outcomes[j].found) |->
        [pkg |-> outcomes[j].found[n], repo |-> repos_to_search[j]]]

----------------------------------------------------------------------------
\* C1: a sub-repository whose index fetch returns a non-success status, or
\* whose fetch, decompression or parsing raises, contributes zero entries;
\* the loop goes on to the next sub-repository (all are searched by the time
\* the run ends); and the accumulation is exactly the concatenation of what
\* the sub-repositories contributed, a failed one counting as empty.
C1_FailureIsolated ==
    /\ Searching =>
        /\ \A j \in 1..Len(outcomes) :
              outcomes[j].failed => outcomes[j].found = <<>>
        /\ all_packages = Flatten([j \in 1..Len(outcomes) |-> Contribution(j)])
        /\ Len(outcomes) = i - 1
        /\ (pc = "report" /\ msg \in FailureMsgs) => packages = <<>>
    /\ (pc = "exit" /\ ValidArgs) =>
        /\ Len(outcomes) = Len(ExpectedRepos)
        /\ index_log = ExpectedRepos

\* a failed sub-repository lies before one that contributed entries
C1_Witness ==
    /\ pc = "for_repo"
    /\ \E j \in 1..Len(outcomes) : \E m \in 1..Len(outcomes) :
          /\ j < m
          /\ outcomes[j].failed
          /\ outcomes[m].found # <<>>

----------------------------------------------------------------------------
\* C2: the exit code is 0 on every run that passes argument and
\* configuration validation, whatever the sub-repositories did; it is
\* non-zero only when the distribution is unrecognized or the search term
\* is empty or missing.
C2_ExitCode ==
    /\ pc # "exit" => exit_code = NoCode
    /\ pc = "exit" => exit_code # NoCode
    /\ (pc = "exit" /\ ValidArgs) => exit_code = 0
    /\ (pc = "exit" /\ exit_code # 0) =>
          \/ args.distro \notin {"centos7", "alma8", "alma9"}
          \/ ~args.search_term.some
          \/ args.search_term.val = <<>>

\* a run in which every sub-repository of alma9 failed or found nothing
\* and that still ended with status 0
C2_Witness ==
    /\ pc = "exit"
    /\ exit_code = 0
    /\ Len(outcomes) = 4
    /\ \E j \in 1..4 : outcomes[j].failed
    /\ \E j \in 1..4 : ~outcomes[j].failed
    /\ \A j \in 1..4 : outcomes[j].found = <<>>

----------------------------------------------------------------------------
\* C3: with a distribution identifier outside the supported set the
\* operation returns exit code 1 and issues no network call.
C3_UnknownDistroExitsOne ==
    (/\ pc = "exit"
     /\ args.distro \notin {"centos7", "alma8", "alma9"}
     /\ args.search_term.some
     /\ args.search_term.val # <<>>) =>
        /\ exit_code = 1
        /\ last_fetch = NoFetch
        /\ index_log = <<>>

----------------------------------------------------------------------------
\* the entries of s whose name is exactly term, in order
RECURSIVE Keep(_, _)
Keep(s, term) ==
    IF s = <<>> THEN <<>>
    ELSE IF Head(s).name = term THEN <<Head(s)>> \o Keep(Tail(s), term)
         ELSE Keep(Tail(s), term)

\* everything the finished sub-repositories returned, tagged, in order
Accumulated == Flatten([j \in 1..Len(outcomes) |-> Contribution(j)])

\* C4: without exact_match an entry of a successfully parsed package list
\* is in the result if and only if the search term occurs in its name,
\* letter case ignored; with exact_match only the entries whose name equals
\* the search term, case-sensitively, are listed, under the sub-repository
\* and under the summary banner.
C4_NameFilter ==
    /\ (pc = "report" /\ msg = "ok" /\ ~args.exact) =>
        /\ \A j \in DOMAIN doc :
              (\E n \in DOMAIN packages : packages[n].name = doc[j].name)
                  <=> OccursIgnoringCase(args.search_term.val, doc[j].name)
        /\ \A n \in DOMAIN packages : \E j \in DOMAIN doc : packages[n].name = doc[j].name
    /\ (pc = "for_repo" /\ outcomes # <<>>) =>
        LET found == outcomes[Len(outcomes)].found
            shown == IF args.exact THEN Keep(found, args.search_term.val) ELSE found
        IN  listed = [n \in DOMAIN shown |-> shown[n].full_name]
    /\ (pc = "exit" /\ exit_code = 0) =>
        LET shown == [n \in DOMAIN Accumulated |-> Accumulated[n].pkg]
            kept == IF args.exact THEN Keep(shown, args.search_term.val) ELSE shown
        IN  [n \in DOMAIN summary_lines |-> summary_lines[n].full_name]
                = [n \in DOMAIN kept |-> kept[n].full_name]

\* under --exact a sub-repository returned two entries whose names differ
\* from the search term only in letter case or by more letters, and listed one
C4_Witness ==
    /\ pc = "for_repo"
    /\ args.exact
    /\ outcomes # <<>>
    /\ Len(outcomes[Len(outcomes)].found) = 2
    /\ Len(listed) = 1

----------------------------------------------------------------------------
\* C5: the count of the summary banner is the sum of the counts the
\* sub-repositories reported for themselves, a failed or empty one counting 0.
C5_BannerIsSum ==
    banner # NoCount =>
        banner = SumSeq([j \in 1..Len(outcomes) |-> outcomes[j].count])

\* two sub-repositories reported matches, a third failed, under --exact
C5_Witness ==
    /\ banner = 2
    /\ args.exact
    /\ Len(summary_lines) = 1
    /\ \E j \in 1..Len(outcomes) : outcomes[j].failed
    /\ Cardinality({j \in 1..Len(outcomes) : outcomes[j].count > 0}) = 2

----------------------------------------------------------------------------
\* position of a sub-repository in the list being searched
PositionOf(repo) == CHOOSE j \in DOMAIN repos_to_search : repos_to_search[j] = repo

\* s is t with entries left out, order kept
IsSubsequenceByName(s, t) ==
    \E f \in [DOMAIN s -> DOMAIN t] :
        /\ \A a, b \in DOMAIN s : a < b => f[a] < f[b]
        /\ \A a \in DOMAIN s : s[a].name = t[f[a]].name

C6_Ordered ==
    Searching =>
        /\ \A a, b \in DOMAIN all_packages :
              a < b => PositionOf(all_packages[a].repo) <= PositionOf(all_packages[b].repo)
        /\ (pc = "report" /\ msg = "ok") => IsSubsequenceByName(packages, doc)

C6_AppendOnly ==
    /\ pc' # "exit" =>
          /\ Len(all_packages') >= Len(all_packages)
          /\ SubSeq(all_packages', 1, Len(all_packages)) = all_packages
    /\ pc = "report" =>
          /\ Len(all_packages') = Len(all_packages) + Len(packages)
          /\ \A n \in DOMAIN packages :
                all_packages'[Len(all_packages) + n]
                    = [pkg |-> packages[n], repo |-> repos_to_search[i]]

\* C6: the accumulation is in the order the sub-repositories were searched
\* and, within one, in document order; while sub-repositories are being
\* processed entries are only appended; nothing is deduplicated: every
\* returned entry is appended, tagged with its own sub-repository.
C6_Accumulation == [](C6_Ordered) /\ [][C6_AppendOnly]_vars

\* the same package build is in the accumulation twice, from two sub-repositories
C6_Witness ==
    /\ Searching
    /\ \E a, b \in DOMAIN all_packages :
          /\ a < b
          /\ all_packages[a].pkg = all_packages[b].pkg
          /\ all_packages[a].repo # all_packages[b].repo

----------------------------------------------------------------------------
\* the configured list of a distribution
ConfiguredRepos ==
    CASE args.distro = "centos7" -> <<"os">>
      [] args.distro = "alma8" -> <<"BaseOS", "AppStream", "PowerTools">>
      [] args.distro = "alma9" -> <<"BaseOS", "AppStream", "CRB", "devel">>
      [] OTHER -> <<>>

\* C7 as stated: [sub_repository] whenever sub_repository is provided
C7_Original ==
    (pc # "parse_args" /\ ValidArgs) =>
        repos_to_search = (IF args.repo.some THEN <<args.repo.val>> ELSE ConfiguredRepos)

C7_Sequence ==
    (pc # "parse_args" /\ ValidArgs) =>
        /\ repos_to_search = (IF args.repo.some /\ args.repo.val # ""
                              THEN <<args.repo.val>> ELSE ConfiguredRepos)
        /\ index_log = SubSeq(repos_to_search, 1, Len(index_log))
        /\ Len(index_log) = (IF pc \in {"primary", "report"} THEN i ELSE i - 1)
        /\ pc = "exit" => index_log = repos_to_search

C7_OneAtATime ==
    /\ i' >= i
    /\ last_fetch' # last_fetch =>
          /\ last_fetch'.repo = i
          /\ i' = i
          /\ last_fetch'.kind = "index" => last_fetch.repo = i - 1
          /\ last_fetch'.kind = "primary" => last_fetch.repo = i

\* C7 (amended): the sub-repositories searched are exactly [sub_repository]
\* when sub_repository is provided and not the empty string, whether or not
\* the distribution lists it, and otherwise the configured list in
\* configured order; each gets exactly one index fetch, in that order, and
\* every fetch for one sub-repository precedes the index fetch of the next.
C7_SearchSequence == [](C7_Sequence) /\ [][C7_OneAtATime]_vars

\* a sub-repository the distribution does not list was searched, once
C7_Witness ==
    /\ pc = "exit"
    /\ exit_code = 0
    /\ args.repo.val = "extras"
    /\ index_log = <<"extras">>
    /\ last_fetch.kind = "primary"

----------------------------------------------------------------------------
\* C8: the "no primary listing found" message is logged only when the index
\* document has no entry of type "primary"; never when a primary entry
\* exists but its package-list fetch returned a non-success status.
C8_NoPrimaryOnlyWithoutEntries ==
    (pc = "report" /\ msg = "no_primary") => ncand = 0

----------------------------------------------------------------------------
C9_Results ==
    /\ (pc = "report" /\ msg = "ok") =>
          /\ last_fetch = [kind |-> "primary", repo |-> i, cand |-> k, status |-> 200]
          /\ \A j \in DOMAIN doc :
                (\E n \in DOMAIN packages : packages[n].name = doc[j].name)
                    <=> OccursIgnoringCase(args.search_term.val, doc[j].name)
          /\ IsSubsequenceByName(packages, doc)
    /\ (pc = "report" /\ msg = "no_primary") =>
          /\ packages = <<>>
          /\ k = ncand + 1
          /\ ncand > 0 =>
                last_fetch = [kind |-> "primary", repo |-> i, cand |-> ncand, status |-> 404]

C9_InOrder ==
    /\ (last_fetch' # last_fetch /\ last_fetch'.kind = "primary") =>
          /\ last_fetch'.repo = last_fetch.repo
          /\ IF last_fetch'.cand = 1
             THEN last_fetch.kind = "index" /\ last_fetch.status = 200
             ELSE /\ last_fetch.kind = "primary"
                  /\ last_fetch.cand = last_fetch'.cand - 1
                  /\ last_fetch.status \notin {200, -1}
    /\ (last_fetch' # last_fetch /\ last_fetch.kind = "primary" /\ last_fetch.status = 200) =>
          last_fetch'.kind = "index"

\* C9: the primary candidates of one sub-repository are tried in document
\* order; candidate k+1 is fetched only if the fetch of candidate k returned
\* a non-success status; the result is the filtered entries of the first
\* candidate whose fetch succeeded (and parsed), after which no further
\* candidate is fetched; if every fetch returns non-success the result is empty.
C9_Candidates == [](C9_Results) /\ [][C9_InOrder]_vars

\* the first candidate returned 404 and the second one gave the result
C9_Witness ==
    /\ pc = "report"
    /\ msg = "ok"
    /\ k = 2
    /\ packages # <<>>

----------------------------------------------------------------------------
\* C10: the number of lines beneath the summary banner is at most the count
\* N of the banner; they are equal without exact_match; with exact_match N
\* counts the unfiltered accumulation, so it exceeds the lines by the number
\* of accumulated entries whose name is not the search term.
C10_BannerVersusLines ==
    banner # NoCount =>
        /\ Len(summary_lines) <= banner
        /\ ~args.exact => Len(summary_lines) = banner
        /\ banner = Len(Accumulated)
        /\ args.exact =>
              banner - Len(summary_lines)
                  = Cardinality({n \in DOMAIN Accumulated :
                                    Accumulated[n].pkg.name # args.search_term.val})

\* under --exact the banner counts more than the lines printed beneath it
C10_Witness ==
    /\ banner # NoCount
    /\ args.exact
    /\ summary_lines # <<>>
    /\ Len(summary_lines) < banner

====
